---- MODULE Spec2Model ----
(***************************************************************************)
(* Model of cloudwatch_monitoring/sqs.py: the paginated listing of SQS     *)
(* queue urls (get_all_sqs_queue_urls), the tier/tag filter                *)
(* (is_iow_queue_filter) and the widget builder (create_sqs_widgets) with  *)
(* the layout cursor it shares with its caller.                            *)
(*                                                                         *)
(* Strings the code takes apart (queue urls, the deploy stage, queue       *)
(* names) are sequences of one-character strings, so that upper(), in,     *)
(* split('/') and replace() are computed character by character.           *)
(***************************************************************************)
EXTENDS Integers, Sequences, FiniteSets, TLC

VARIABLES
    pc,             \* position of the run: start, list, loop, build, done, raised
    deploy_stage,   \* argument of create_sqs_widgets
    positioning,    \* the shared cursor object {x, y, width, height, max_width}
    cat,            \* provider: the queue urls of the account, in provider order
    pages,          \* provider: the list_queues responses it has produced so far
    response,       \* get_all_sqs_queue_urls: the accumulated response dict
    next_token,     \* get_all_sqs_queue_urls: next_token
    idx,            \* create_sqs_widgets: position of the for loop in QueueUrls
    sqs_widgets,    \* create_sqs_widgets: sqs_widgets
    returned,       \* what the caller received from create_sqs_widgets
    calls,          \* history: every external call issued, in order
    filter_log,     \* history: one entry per is_iow_queue_filter evaluation
    title_log,      \* history: one entry per sqs_queues[...] lookup
    advance_log,    \* history: one entry per iterate_positioning call
    called_with     \* history: the cursor as create_sqs_widgets received it

vars == <<pc, deploy_stage, positioning, cat, pages, response, next_token, idx,
          sqs_widgets, returned, calls, filter_log, title_log, advance_log,
          called_with>>

----------------------------------------------------------------------------
(* Bounds of the model *)

\* the provider ends its chain of pages after at most this many pages
MaxPages == 3
\* iterate_positioning calls the caller makes for other widgets before the pass
MaxPrior == 1

(* Program constants *)

MaxResults == 10
SqsWidgetWidth == 12
HeightPadding == 3
Period == 60

\* Python's None; continuation tokens are non-empty (truthy) values, modelled
\* as the positive number of the page they stand for
None == 0

region == "us-west-2"

----------------------------------------------------------------------------
(* Strings *)

UpperOf == ("q" :> "Q") @@ ("a" :> "A") @@ ("e" :> "E") @@ ("t" :> "T")
           @@ ("x" :> "X") @@ ("h" :> "H") @@ ("d" :> "D") @@ ("v" :> "V")

\* str.upper()
Upper(s) == [k \in 1..Len(s) |-> IF s[k] \in DOMAIN UpperOf THEN UpperOf[s[k]] ELSE s[k]]

\* Python's `sub in s`
Contains(s, sub) ==
    \E k \in 1..(Len(s) - Len(sub) + 1) : SubSeq(s, k, k + Len(sub) - 1) = sub

\* s.split('/')[-1]: what follows the last '/', the whole string without one
LastPart(s) ==
    LET slashes == {k \in 1..Len(s) : s[k] = "/"}
        last == IF slashes = {} THEN 0
                ELSE CHOOSE k \in slashes : \A m \in slashes : m <= k
    IN SubSeq(s, last + 1, Len(s))

\* s.replace(old, ''): every non-overlapping occurrence, left to right
RECURSIVE Remove(_, _)
Remove(s, old) ==
    IF Len(s) < Len(old) THEN s
    ELSE IF SubSeq(s, 1, Len(old)) = old
         THEN Remove(SubSeq(s, Len(old) + 1, Len(s)), old)
         ELSE <<Head(s)>> \o Remove(Tail(s), old)

----------------------------------------------------------------------------
(* The environment: the account's queues, their tags, the title table *)

Host == <<"h", "/", "7", "/">>

\* queue urls: in the tier with a known title (e, t), of another tier (e-DV),
\* in the tier without a title (x), and with the tier text twice in the name
UrlErrorQA   == Host \o <<"e", "-", "Q", "A">>
UrlErrorDV   == Host \o <<"e", "-", "D", "V">>
UrlTriggerQA == Host \o <<"t", "-", "Q", "A">>
UrlUnknownQA == Host \o <<"x", "-", "Q", "A">>
UrlTwiceQA   == Host \o <<"e", "-", "Q", "A", "-", "t", "-", "Q", "A">>

\* the account's queues in the order the provider lists them
Catalogues ==
    { <<UrlErrorDV, UrlErrorQA, UrlTriggerQA, UrlUnknownQA>>,
      <<UrlTriggerQA, UrlTwiceQA, UrlErrorDV, UrlErrorQA>> }

Stages == { <<"Q", "A">>, <<"q", "a">> }

OrgKey == "wma:organization"

\* list_queue_tags responses: no Tags, Tags without the key, the key with
\* another value, the key with "IOW"
TagResponses ==
    { [ResponseMetadata |-> "200"],
      [ResponseMetadata |-> "200", Tags |-> ("team" :> "IOW")],
      [ResponseMetadata |-> "200", Tags |-> (OrgKey :> "WMA")],
      [ResponseMetadata |-> "200", Tags |-> (OrgKey :> "IOW")] }

\* lookups.sqs_queues: tier agnostic queue name -> {title}
sqs_queues ==
    (<<"e">> :> [title |-> "Error Queue"]) @@ (<<"t">> :> [title |-> "Trigger Queue"])

\* cursors the caller may construct (dashboard.py: x, y = 0, 0; width, height = 3, 3;
\* max_width = 12; the comment in sqs.py speaks of a 24 column grid)
InitialCursors ==
    { [x |-> 0, y |-> 0, width |-> 3, height |-> 3, max_width |-> mw] : mw \in {12, 24} }

\* number of urls the provider has handed out in the pages produced so far
RECURSIVE Served(_)
Served(ps) == IF ps = <<>> THEN 0 ELSE Len(Head(ps).QueueUrls) + Served(Tail(ps))

\* all urls of the pages, page after page
RECURSIVE Flatten(_)
Flatten(ps) == IF ps = <<>> THEN <<>> ELSE Head(ps).QueueUrls \o Flatten(Tail(ps))

Min(a, b) == IF a < b THEN a ELSE b

\* the pages the provider may answer a request for page p with: a page already
\* produced is served again as it was; the next new page takes up to max_results
\* of the remaining urls and carries a token unless it is the last one
PageFor(p, max_results) ==
    IF p <= Len(pages) THEN {pages[p]}
    ELSE LET from == Served(pages)
             left == Len(cat) - from
         IN { [QueueUrls |-> SubSeq(cat, from + 1, from + k)] :
                  k \in 0..Min(max_results, left) }
            \cup
            { [QueueUrls |-> SubSeq(cat, from + 1, from + k), NextToken |-> p + 1] :
                  k \in IF p < MaxPages THEN 0..Min(max_results, left) ELSE {} }

----------------------------------------------------------------------------
(* get_all_sqs_queue_urls *)

\* `if next_token:`
Truthy(token) == token /= None

\* a request that never passes the token on
RequestTokenNever(token) == None

\* the NextToken argument of the request (None: the request carries none)
RequestToken(token) == IF Truthy(token) THEN token ELSE None

\* a loop body that updates the dict with every page instead of extending the list
AccumulateOverwrite(resp, token, response_iterator) == response_iterator @@ resp

\* what the loop body does to `response` with the page it received
Accumulate(resp, token, response_iterator) ==
    IF Truthy(token)
    THEN [resp EXCEPT !.QueueUrls = @ \o response_iterator.QueueUrls]
    ELSE response_iterator @@ resp

\* the empty dict
EmptyDict == [k \in {} |-> None]

----------------------------------------------------------------------------
(* is_iow_queue_filter *)

\* a tier test that forgets to capitalize the deploy stage
StageMatchesAsGiven(queue_url, stage) == Contains(queue_url, stage)

\* `deploy_stage.upper() in queue_url`
StageMatches(queue_url, stage) == Contains(queue_url, Upper(stage))

\* a tag test that accepts any value of the organization tag
TaggedAnyOrganization(queue_tags) ==
    IF "Tags" \in DOMAIN queue_tags
    THEN IF OrgKey \in DOMAIN queue_tags.Tags THEN TRUE ELSE FALSE
    ELSE FALSE

\* the nested ifs on the list_queue_tags response
TaggedIow(queue_tags) ==
    IF "Tags" \in DOMAIN queue_tags
    THEN IF OrgKey \in DOMAIN queue_tags.Tags
         THEN IF "IOW" = queue_tags.Tags[OrgKey] THEN TRUE ELSE FALSE
         ELSE FALSE
    ELSE FALSE

----------------------------------------------------------------------------
(* create_sqs_widgets *)

queue_name(queue_url) == LastPart(queue_url)

tier_agnostic_queue_name(name, stage) == Remove(name, <<"-">> \o stage)

\* a widget height without the padding
widget_height_unpadded(pos) == pos.height

\* 'height': positioning.height + 3
widget_height(pos) == pos.height + HeightPadding

queue_widget(pos, name, queue_title) ==
    [type |-> "metric",
     x |-> pos.x,
     y |-> pos.y,
     height |-> widget_height(pos),
     width |-> pos.width,
     properties |->
        [metrics |-> << <<"AWS/SQS", "ApproximateNumberOfMessagesVisible", "QueueName", name>>,
                        <<".", "ApproximateAgeOfOldestMessage", ".", ".", [yAxis |-> "right"]>>,
                        <<".", "NumberOfMessagesReceived", ".", ".", [stat |-> "Sum"]>>,
                        <<".", "NumberOfMessagesSent", ".", ".", [stat |-> "Sum"]>>,
                        <<".", "NumberOfMessagesDeleted", ".", ".">>,
                        <<".", "ApproximateNumberOfMessagesDelayed", ".", ".">> >>,
         view |-> "timeSeries",
         stacked |-> FALSE,
         region |-> region,
         period |-> Period,
         title |-> queue_title,
         stat |-> "Average"]]

\* positioning.width = 12
SetWidth(pos) == [pos EXCEPT !.width = SqsWidgetWidth]

\* a builder that puts the new widget in front
PrependWidget(widgets, w) == <<w>> \o widgets

\* sqs_widgets.append(queue_widget)
AppendWidget(widgets, w) == Append(widgets, w)

\* an advance that wraps only once the row is overfull
iterate_positioning_late_wrap(pos) ==
    IF pos.x + pos.width <= pos.max_width
    THEN [pos EXCEPT !.x = pos.x + pos.width]
    ELSE [pos EXCEPT !.x = 0, !.y = pos.y + pos.height]

\* positioning.iterate_positioning()
iterate_positioning(pos) ==
    IF pos.x + pos.width < pos.max_width
    THEN [pos EXCEPT !.x = pos.x + pos.width]
    ELSE [pos EXCEPT !.x = 0, !.y = pos.y + pos.height]

NotReturned == [done |-> FALSE, value |-> <<>>]

----------------------------------------------------------------------------
(* Actions *)

Init ==
    /\ pc = "start"
    /\ deploy_stage \in Stages
    /\ positioning \in InitialCursors
    /\ cat \in Catalogues
    /\ pages = <<>>
    /\ response = EmptyDict
    /\ next_token = None
    /\ idx = 1
    /\ sqs_widgets = <<>>
    /\ returned = NotReturned
    /\ calls = <<>>
    /\ filter_log = <<>>
    /\ title_log = <<>>
    /\ advance_log = <<>>
    /\ called_with = positioning

\* the caller lays out another widget with the shared cursor before the SQS pass
CallerAdvance ==
    /\ pc = "start"
    /\ Len(advance_log) < MaxPrior
    /\ positioning' = iterate_positioning(positioning)
    /\ advance_log' = Append(advance_log,
            [by |-> "caller", entry |-> positioning, before |-> positioning,
             after |-> positioning', emitted |-> 0])
    /\ called_with' = positioning'
    /\ UNCHANGED <<pc, deploy_stage, cat, pages, response, next_token, idx,
                   sqs_widgets, returned, calls, filter_log, title_log>>

\* create_sqs_widgets(region, deploy_stage, positioning) is entered
Call ==
    /\ pc = "start"
    /\ pc' = "list"
    /\ sqs_widgets' = <<>>
    /\ response' = EmptyDict
    /\ next_token' = None
    /\ called_with' = positioning
    /\ UNCHANGED <<deploy_stage, positioning, cat, pages, idx, returned, calls,
                   filter_log, title_log, advance_log>>

\* one iteration of the while loop: the list_queues call answers
ListQueues ==
    /\ pc = "list"
    /\ Len(calls) <= MaxPages
    /\ LET sent == RequestToken(next_token)
           p == IF sent = None THEN 1 ELSE sent
       IN \E response_iterator \in PageFor(p, MaxResults) :
            /\ pages' = IF p <= Len(pages) THEN pages ELSE Append(pages, response_iterator)
            /\ calls' = Append(calls, [api |-> "list_queues", token |-> sent,
                                       url |-> <<>>, ok |-> TRUE])
            /\ response' = Accumulate(response, next_token, response_iterator)
            /\ IF "NextToken" \in DOMAIN response_iterator
               THEN /\ next_token' = response_iterator.NextToken
                    /\ pc' = "list"
               ELSE /\ next_token' = next_token
                    /\ pc' = "loop"
    /\ idx' = 1
    /\ UNCHANGED <<deploy_stage, positioning, cat, sqs_widgets, returned,
                   filter_log, title_log, advance_log, called_with>>

\* the list_queues call raises: nothing catches it
ListQueuesRaises ==
    /\ pc = "list"
    /\ Len(calls) <= MaxPages
    /\ calls' = Append(calls, [api |-> "list_queues", token |-> RequestToken(next_token),
                               url |-> <<>>, ok |-> FALSE])
    /\ pc' = "raised"
    /\ UNCHANGED <<deploy_stage, positioning, cat, pages, response, next_token, idx,
                   sqs_widgets, returned, filter_log, title_log, advance_log, called_with>>

\* the filter log entry of a url whose tags were not fetched
NotFetched == [ResponseMetadata |-> "not fetched"]

\* the url the for loop is at
queue_url == response.QueueUrls[idx]

\* is_iow_queue_filter finds the tier text missing: no call, the url is skipped
SkipQueue ==
    /\ pc = "loop"
    /\ idx <= Len(response.QueueUrls)
    /\ ~StageMatches(queue_url, deploy_stage)
    /\ filter_log' = Append(filter_log, [url |-> queue_url, fetched |-> FALSE,
                                         tags |-> NotFetched, result |-> FALSE])
    /\ idx' = idx + 1
    /\ UNCHANGED <<pc, deploy_stage, positioning, cat, pages, response, next_token,
                   sqs_widgets, returned, calls, title_log, advance_log, called_with>>

\* is_iow_queue_filter finds the tier text and list_queue_tags answers
TagLookup ==
    /\ pc = "loop"
    /\ idx <= Len(response.QueueUrls)
    /\ StageMatches(queue_url, deploy_stage)
    /\ \E queue_tags \in TagResponses :
         LET is_iow_queue == TaggedIow(queue_tags)
         IN /\ calls' = Append(calls, [api |-> "list_queue_tags", token |-> None,
                                       url |-> queue_url, ok |-> TRUE])
            /\ filter_log' = Append(filter_log, [url |-> queue_url, fetched |-> TRUE,
                                                 tags |-> queue_tags, result |-> is_iow_queue])
            /\ IF is_iow_queue
               THEN pc' = "build" /\ idx' = idx
               ELSE pc' = "loop" /\ idx' = idx + 1
    /\ UNCHANGED <<deploy_stage, positioning, cat, pages, response, next_token,
                   sqs_widgets, returned, title_log, advance_log, called_with>>

\* a failed list_queue_tags call taken for "not an IOW queue": the loop goes on
TagLookupSwallowed ==
    /\ pc = "loop"
    /\ idx <= Len(response.QueueUrls)
    /\ StageMatches(queue_url, deploy_stage)
    /\ calls' = Append(calls, [api |-> "list_queue_tags", token |-> None,
                               url |-> queue_url, ok |-> FALSE])
    /\ filter_log' = Append(filter_log, [url |-> queue_url, fetched |-> TRUE,
                                         tags |-> NotFetched, result |-> FALSE])
    /\ idx' = idx + 1
    /\ UNCHANGED <<pc, deploy_stage, positioning, cat, pages, response, next_token,
                   sqs_widgets, returned, title_log, advance_log, called_with>>

\* the list_queue_tags call raises: nothing catches it
TagLookupRaises ==
    /\ pc = "loop"
    /\ idx <= Len(response.QueueUrls)
    /\ StageMatches(queue_url, deploy_stage)
    /\ calls' = Append(calls, [api |-> "list_queue_tags", token |-> None,
                               url |-> queue_url, ok |-> FALSE])
    /\ pc' = "raised"
    /\ UNCHANGED <<deploy_stage, positioning, cat, pages, response, next_token, idx,
                   sqs_widgets, returned, filter_log, title_log, advance_log, called_with>>

\* the body of the if for an eligible url whose title the table holds
BuildWidget ==
    /\ pc = "build"
    /\ LET name == queue_name(queue_url)
           key == tier_agnostic_queue_name(name, deploy_stage)
       IN /\ key \in DOMAIN sqs_queues
          /\ LET sized == SetWidth(positioning)
                 widget == queue_widget(sized, name, sqs_queues[key].title)
             IN /\ sqs_widgets' = AppendWidget(sqs_widgets, widget)
                /\ positioning' = iterate_positioning(sized)
                /\ advance_log' = Append(advance_log,
                        [by |-> "sqs", entry |-> positioning, before |-> sized,
                         after |-> positioning', emitted |-> Len(sqs_widgets')])
          /\ title_log' = Append(title_log, [url |-> queue_url, name |-> name,
                                             key |-> key, found |-> TRUE])
    /\ idx' = idx + 1
    /\ pc' = "loop"
    /\ UNCHANGED <<deploy_stage, cat, pages, response, next_token, returned, calls,
                   filter_log, called_with>>

\* sqs_queues[tier_agnostic_queue_name] raises KeyError: nothing catches it
TitleLookupRaises ==
    /\ pc = "build"
    /\ LET name == queue_name(queue_url)
           key == tier_agnostic_queue_name(name, deploy_stage)
       IN /\ key \notin DOMAIN sqs_queues
          /\ title_log' = Append(title_log, [url |-> queue_url, name |-> name,
                                             key |-> key, found |-> FALSE])
    /\ pc' = "raised"
    /\ UNCHANGED <<deploy_stage, positioning, cat, pages, response, next_token, idx,
                   sqs_widgets, returned, calls, filter_log, advance_log, called_with>>

\* the for loop is over: return sqs_widgets
Return ==
    /\ pc = "loop"
    /\ idx > Len(response.QueueUrls)
    /\ returned' = [done |-> TRUE, value |-> sqs_widgets]
    /\ pc' = "done"
    /\ UNCHANGED <<deploy_stage, positioning, cat, pages, response, next_token, idx,
                   sqs_widgets, calls, filter_log, title_log, advance_log, called_with>>

Next ==
    \/ CallerAdvance
    \/ Call
    \/ ListQueues
    \/ ListQueuesRaises
    \/ SkipQueue
    \/ TagLookup
    \/ TagLookupRaises
    \/ BuildWidget
    \/ TitleLookupRaises
    \/ Return

Spec == Init /\ [][Next]_vars

----------------------------------------------------------------------------
(* Properties *)

ListCalls == SelectSeq(calls, LAMBDA c : c.api = "list_queues")
TagCalls == SelectSeq(calls, LAMBDA c : c.api = "list_queue_tags")

\* get_all_sqs_queue_urls has returned to create_sqs_widgets
ListingDone == pc \in {"loop", "build", "done"}

Occurrences(seq, v) == Cardinality({k \in 1..Len(seq) : seq[k] = v})

\* C1: pagination completeness. Whatever the pages the provider served, the
\* accumulated QueueUrls is their concatenation, page after page and in page order
\* within a page: the N urls served, each exactly once, none dropped or
\* duplicated at a page boundary.
PaginationComplete ==
    (pages /= <<>> /\ pc \in {"list", "loop", "build", "done"}) =>
        /\ response.QueueUrls = Flatten(pages)
        /\ Len(response.QueueUrls) = Served(pages)
        /\ \A k \in 1..Len(pages) : Len(pages[k].QueueUrls) <= MaxResults
        /\ \A k \in 1..Served(pages) : Occurrences(response.QueueUrls, cat[k]) = 1

\* a listing of three pages with urls on both sides of each page boundary
PaginationWitness ==
    /\ ListingDone
    /\ Len(pages) = 3
    /\ \A k \in 1..3 : pages[k].QueueUrls /= <<>>
    /\ Len(response.QueueUrls) = Len(cat)

\* C8: continuation-token protocol and termination. The first request carries
\* no token, request k + 1 carries exactly the token of response k, no page is
\* requested twice, the loop goes on exactly while the last response carried a
\* token, and the listing is over after as many requests as the chain has pages.
TokenProtocol ==
    /\ ListCalls /= <<>> => ListCalls[1].token = None
    /\ \A k \in 2..Len(ListCalls) :
          /\ k - 1 <= Len(pages)
          /\ "NextToken" \in DOMAIN pages[k - 1]
          /\ ListCalls[k].token = pages[k - 1].NextToken
    /\ \A j, k \in 1..Len(ListCalls) : j < k => ListCalls[j].token /= ListCalls[k].token
    /\ Len(ListCalls) <= MaxPages
    /\ pc = "list" =>
          /\ Len(ListCalls) = Len(pages)
          /\ \A k \in 1..Len(pages) : "NextToken" \in DOMAIN pages[k]
          /\ ENABLED ListQueues
    /\ ListingDone =>
          /\ Len(ListCalls) = Len(pages)
          /\ \A k \in 1..Len(pages) :
                ("NextToken" \in DOMAIN pages[k]) <=> (k < Len(pages))

\* a chain of three pages fetched with three requests
TokenWitness ==
    /\ ListingDone
    /\ Len(pages) = 3
    /\ Len(ListCalls) = 3
    /\ ListCalls[3].token = pages[2].NextToken

Eligible == SelectSeq(filter_log, LAMBDA e : e.result)
SqsAdvances == SelectSeq(advance_log, LAMBDA a : a.by = "sqs")

\* C2: eligibility predicate. Every evaluation of is_iow_queue_filter gave true
\* exactly when the upper-cased deploy stage is part of the url and the tag
\* response holds a Tags collection with "wma:organization" set to exactly "IOW";
\* a response without Tags, without the key or with another value gave false.
EligibilityPredicate ==
    \A k \in 1..Len(filter_log) :
        LET e == filter_log[k]
        IN e.result <=>
              /\ Contains(e.url, Upper(deploy_stage))
              /\ e.fetched
              /\ "Tags" \in DOMAIN e.tags
              /\ OrgKey \in DOMAIN e.tags.Tags
              /\ e.tags.Tags[OrgKey] = "IOW"

\* with the stage given in lower case: one url accepted, and urls of the tier
\* rejected for each of the three deficient tag responses, the run going on
EligibilityWitness ==
    /\ deploy_stage = <<"q", "a">>
    /\ pc /= "raised"
    /\ \E k \in 1..Len(filter_log) : filter_log[k].result
    /\ \E k \in 1..Len(filter_log) :
          filter_log[k].fetched /\ "Tags" \notin DOMAIN filter_log[k].tags
    /\ \E k \in 1..Len(filter_log) :
          /\ filter_log[k].fetched
          /\ "Tags" \in DOMAIN filter_log[k].tags
          /\ ~filter_log[k].result

\* C3: output and cursor advance. There is one widget per eligible url, in the
\* order of the listing, none for an ineligible one; iterate_positioning was
\* called once per widget, right after that widget was appended; and the list
\* returned is that list, every listed url having been filtered in order.
WidgetsMatchEligible ==
    /\ Len(sqs_widgets) <= Len(Eligible)
    /\ pc \in {"loop", "done"} => Len(sqs_widgets) = Len(Eligible)
    /\ \A k \in 1..Len(sqs_widgets) :
          sqs_widgets[k].properties.metrics[1][4] = LastPart(Eligible[k].url)
    /\ Len(SqsAdvances) = Len(sqs_widgets)
    /\ \A k \in 1..Len(SqsAdvances) : SqsAdvances[k].emitted = k
    /\ pc = "done" =>
          /\ returned = [done |-> TRUE, value |-> sqs_widgets]
          /\ Len(filter_log) = Len(response.QueueUrls)
          /\ \A k \in 1..Len(filter_log) : filter_log[k].url = response.QueueUrls[k]

\* two urls listed in one page, only the second eligible: one widget, one advance
WidgetsWitness ==
    /\ pc = "done"
    /\ Len(pages) = 1
    /\ Len(response.QueueUrls) = 2
    /\ ~filter_log[1].result
    /\ filter_log[2].result
    /\ Len(returned.value) = 1
    /\ Len(SqsAdvances) = 1

\* C5: widget geometry. For every widget the cursor's width was 12 when it was
\* read, the widget is 12 wide, sits at the cursor's x and y as the previous
\* advance (or the caller, for the first widget) left them, and is the cursor's
\* height plus 3 high, the cursor's height staying what it was.
WidgetGeometry ==
    \A k \in 1..Len(SqsAdvances) :
        LET a == SqsAdvances[k]
            w == sqs_widgets[k]
        IN /\ a.before.width = 12
           /\ w.width = 12
           /\ w.x = a.entry.x
           /\ w.y = a.entry.y
           /\ w.height = a.entry.height + 3
           /\ a.after.height = a.entry.height
           /\ a.entry = IF k = 1 THEN called_with ELSE SqsAdvances[k - 1].after

\* two widgets, the first one at the x the caller's own advance had left
GeometryWitness ==
    /\ Len(sqs_widgets) = 2
    /\ sqs_widgets[1].x = 3
    /\ sqs_widgets[2].y > sqs_widgets[1].y

\* C6: layout advance rule. Every iterate_positioning call moved x by width and
\* left y alone when x + width < max_width, and otherwise set x to 0 and moved y
\* by height; width, height and max_width are never changed by it, and y never
\* decreases from one call to the next.
LayoutAdvance ==
    /\ \A k \in 1..Len(advance_log) :
          LET b == advance_log[k].before
              a == advance_log[k].after
          IN /\ b.x + b.width < b.max_width  => a.x = b.x + b.width /\ a.y = b.y
             /\ b.x + b.width >= b.max_width => a.x = 0 /\ a.y = b.y + b.height
             /\ a.width = b.width /\ a.height = b.height /\ a.max_width = b.max_width
             /\ a.y >= b.y
    /\ \A j, k \in 1..Len(advance_log) :
          j < k => advance_log[j].after.y <= advance_log[k].after.y

\* the two cursors of the examples: {0, 0, 3, 3, 12} moved to x = 3, and
\* {0, 0, 12, 3, 12} wrapped to y = 3
LayoutWitness ==
    /\ \E k \in 1..Len(advance_log) :
          /\ advance_log[k].before = [x |-> 0, y |-> 0, width |-> 3, height |-> 3, max_width |-> 12]
          /\ advance_log[k].after = [x |-> 3, y |-> 0, width |-> 3, height |-> 3, max_width |-> 12]
    /\ \E k \in 1..Len(advance_log) :
          /\ advance_log[k].before.x = 3 /\ advance_log[k].before.width = 12
          /\ advance_log[k].after.x = 0 /\ advance_log[k].after.y = 3
    /\ positioning.y > 3

FailedCalls == {k \in 1..Len(calls) : ~calls[k].ok}
FailedTitles == {k \in 1..Len(title_log) : ~title_log[k].found}

\* C7: fail fast, no partial output. A failed list_queues or list_queue_tags
\* call, or a title missing from sqs_queues, ends the run there: it is the last
\* call issued (not retried, none after it), nothing is returned to the caller,
\* and nothing at all happens afterwards.
FailFast ==
    /\ \A k \in FailedCalls : k = Len(calls) /\ pc = "raised"
    /\ \A k \in FailedTitles :
          /\ k = Len(title_log)
          /\ pc = "raised"
          /\ calls /= <<>>
          /\ calls[Len(calls)] = [api |-> "list_queue_tags", token |-> None,
                                  url |-> title_log[k].url, ok |-> TRUE]
    /\ pc = "raised" =>
          /\ returned = NotReturned
          /\ ~ENABLED Next
          /\ Cardinality(FailedCalls) + Cardinality(FailedTitles) = 1
    /\ returned.done => pc = "done" /\ FailedCalls = {} /\ FailedTitles = {}

\* a tag lookup failing after two widgets were built: they are not returned
FailFastWitness ==
    /\ pc = "raised"
    /\ Len(sqs_widgets) = 2
    /\ FailedCalls /= {}
    /\ calls[Len(calls)].api = "list_queue_tags"

\* C9: short circuit of the tag lookup. list_queue_tags is never called for a url
\* that lacks the upper-cased deploy stage, at most once for any url, and in a
\* pass that ran to its return exactly once for each listed url that has it.
TagLookupShortCircuit ==
    /\ \A k \in 1..Len(TagCalls) : Contains(TagCalls[k].url, Upper(deploy_stage))
    /\ \A k \in 1..Len(filter_log) :
          filter_log[k].fetched <=> Contains(filter_log[k].url, Upper(deploy_stage))
    /\ \A k \in 1..Len(cat) :
          Cardinality({j \in 1..Len(TagCalls) : TagCalls[j].url = cat[k]}) <= 1
    /\ pc = "done" =>
          \A k \in 1..Len(response.QueueUrls) :
             Cardinality({j \in 1..Len(TagCalls) : TagCalls[j].url = response.QueueUrls[k]})
                = IF Contains(response.QueueUrls[k], Upper(deploy_stage)) THEN 1 ELSE 0

\* a pass with the stage in lower case that returned after skipping one url
\* without a call and fetching the tags of two others
ShortCircuitWitness ==
    /\ pc = "done"
    /\ deploy_stage = <<"q", "a">>
    /\ Len(TagCalls) = 2
    /\ \E k \in 1..Len(filter_log) : ~filter_log[k].fetched

\* s without its suffix suf (s itself when it does not end with suf)
WithoutSuffix(s, suf) ==
    IF Len(s) >= Len(suf) /\ SubSeq(s, Len(s) - Len(suf) + 1, Len(s)) = suf
    THEN SubSeq(s, 1, Len(s) - Len(suf))
    ELSE s

\* C4: name derivation. For every url the filter accepted, the name is what
\* follows the last '/' and the key of the title lookup is that name without its
\* deploy-tier suffix, "-" followed by the deploy stage the filter matched.
NameDerivation ==
    \A k \in 1..Len(title_log) :
        LET e == title_log[k]
            suffix == <<"-">> \o Upper(deploy_stage)
        IN /\ e.name = LastPart(e.url)
           /\ e.key = WithoutSuffix(e.name, suffix)

Overlap(v, w) ==
    /\ v.x < w.x + w.width
    /\ w.x < v.x + v.width
    /\ v.y < w.y + w.height
    /\ w.y < v.y + v.height

\* C10: widgets stay on the grid and do not overlap. When the cursor handed to
\* create_sqs_widgets has x + width <= max_width and max_width >= 12, every
\* widget of the pass has x + width <= max_width and no two widgets intersect.
OnGridNoOverlap ==
    (called_with.x + called_with.width <= called_with.max_width
        /\ called_with.max_width >= 12) =>
        /\ \A k \in 1..Len(sqs_widgets) :
              sqs_widgets[k].x + sqs_widgets[k].width <= positioning.max_width
        /\ \A j, k \in 1..Len(sqs_widgets) :
              j < k => ~Overlap(sqs_widgets[j], sqs_widgets[k])

====
